---- MODULE Spec2Model ----
(***************************************************************************)
(* Model of power_meter_gui.py: the USBTMC transport, the PM16 instrument  *)
(* driver built on it, and the Tk presentation layer that polls it.        *)
(*                                                                         *)
(* Text that crosses the device boundary is a sequence of one-character    *)
(* strings.  A Python float is the exact decimal m * 10^e, kept normalised *)
(* (m carries no trailing zero, zero is m = 0, e = 0).                     *)
(***************************************************************************)
EXTENDS Integers, Sequences, FiniteSets, TLC

\* Number of PM16 objects the script may construct.
MaxObjs == 2
\* os.read may return short only while the device holds at most this many
\* unread replies (each short read leaves one more behind for good).
MaxPending == 1

Objs == 1..MaxObjs
\* Descriptor numbers the process can be handed by os.open.
FDs == 1..MaxObjs

----------------------------------------------------------------------------
(* Decimal values and Python's float(str).                                 *)

RECURSIVE Pow10(_)
Pow10(n) == IF n <= 0 THEN 1 ELSE 10 * Pow10(n - 1)

RECURSIVE DecNorm(_, _)
DecNorm(m, e) ==
    IF m = 0 THEN [m |-> 0, e |-> 0]
    ELSE IF m % 10 = 0 THEN DecNorm(m \div 10, e + 1)
    ELSE [m |-> m, e |-> e]

\* a <= b for two decimals.
DecLeq(a, b) ==
    LET k == IF a.e < b.e THEN a.e ELSE b.e
    IN  a.m * Pow10(a.e - k) <= b.m * Pow10(b.e - k)

Digits == {"0", "1", "2", "3", "4", "5", "6", "7", "8", "9"}
Whitespace == {" ", "\n", "\t", "\r"}

DigitVal(c) ==
    CASE c = "0" -> 0 [] c = "1" -> 1 [] c = "2" -> 2 [] c = "3" -> 3
      [] c = "4" -> 4 [] c = "5" -> 5 [] c = "6" -> 6 [] c = "7" -> 7
      [] c = "8" -> 8 [] c = "9" -> 9

RECURSIVE DigitsToInt(_)
DigitsToInt(s) ==
    IF s = <<>> THEN 0
    ELSE 10 * DigitsToInt(SubSeq(s, 1, Len(s) - 1)) + DigitVal(s[Len(s)])

AllDigits(s) == \A i \in 1..Len(s) : s[i] \in Digits

RECURSIVE LStrip(_)
LStrip(s) ==
    IF s # <<>> /\ Head(s) \in Whitespace THEN LStrip(Tail(s)) ELSE s

RECURSIVE RStrip(_)
RStrip(s) ==
    IF s # <<>> /\ s[Len(s)] \in Whitespace
    THEN RStrip(SubSeq(s, 1, Len(s) - 1)) ELSE s

Strip(s) == RStrip(LStrip(s))

\* Index of the first element of s that lies in cs, 0 when there is none.
FirstIn(s, cs) ==
    IF \E i \in 1..Len(s) : s[i] \in cs
    THEN CHOOSE i \in 1..Len(s) :
            s[i] \in cs /\ \A j \in 1..(i - 1) : s[j] \notin cs
    ELSE 0

HasSign(s) == s # <<>> /\ Head(s) \in {"+", "-"}
Unsigned(s) == IF HasSign(s) THEN Tail(s) ELSE s
SignOf(s) == IF s # <<>> /\ Head(s) = "-" THEN -1 ELSE 1

\* The literal of float(): [sign] (digits [. [digits]] | . digits) [e [sign] digits]
\* around which leading and trailing whitespace is ignored.
FloatParts(s) ==
    LET body == Unsigned(Strip(s))
        ePos == FirstIn(body, {"e", "E"})
        mant == IF ePos = 0 THEN body ELSE SubSeq(body, 1, ePos - 1)
        expo == IF ePos = 0 THEN <<>> ELSE SubSeq(body, ePos + 1, Len(body))
        dPos == FirstIn(mant, {"."})
        ip   == IF dPos = 0 THEN mant ELSE SubSeq(mant, 1, dPos - 1)
        fp   == IF dPos = 0 THEN <<>> ELSE SubSeq(mant, dPos + 1, Len(mant))
    IN  [sign |-> SignOf(Strip(s)), hasExp |-> ePos # 0,
         ip |-> ip, fp |-> fp, expo |-> expo]

IsFloatLiteral(s) ==
    LET p == FloatParts(s)
    IN  /\ AllDigits(p.ip)
        /\ AllDigits(p.fp)
        /\ Len(p.ip) + Len(p.fp) >= 1
        /\ p.hasExp => /\ Unsigned(p.expo) # <<>>
                       /\ AllDigits(Unsigned(p.expo))

\* float(s) for a literal s.
FloatValue(s) ==
    LET p == FloatParts(s)
        x == IF p.hasExp
             THEN SignOf(p.expo) * DigitsToInt(Unsigned(p.expo)) ELSE 0
    IN  DecNorm(p.sign * DigitsToInt(p.ip \o p.fp), x - Len(p.fp))

\* bool(x) of a float x.
Bool(x) == x.m # 0

----------------------------------------------------------------------------
(* Commands, replies and the values that cross the driver's API.           *)

Zero == [m |-> 0, e |-> 0]
NoArg == [kind |-> "none", lit |-> "", num |-> Zero]
Lit(c) == [kind |-> "lit", lit |-> c, num |-> Zero]
Num(x) == [kind |-> "num", lit |-> "", num |-> x]

\* The command text head, followed by a space and arg when there is one.
Cmd(head, a) == [head |-> head, arg |-> a]
NoCmd == Cmd("", NoArg)

ReadQuery == Cmd("Read?", NoArg)
IdnQuery == Cmd("*IDN?", NoArg)
ResetCmd == Cmd("*RST", NoArg)
WavCmd(w) == Cmd("SENS:CORR:WAV", Num(w))
WavQuery == Cmd("SENS:CORR:WAV?", NoArg)
AutoRangeOnCmd == Cmd("SENS:CORR:RANG:AUTO", Lit("1"))
AutoRangeQuery == Cmd("SENS:CURR:RANG:AUTO?", NoArg)
ZeroInitCmd == Cmd("SENS:CORR:COLL:ZERO:INIT", NoArg)
ZeroMagnQuery == Cmd("SENS:CORR:COLL:ZERO:MAGN?", NoArg)
AutoRangeOffCmd == Cmd("SENS:CURR:RANG:AUTO", Lit("0"))
RangeCmd(r) == Cmd("SENS:CURR:RANG: UPP", Num(r))

DefaultLength == 4000
NameLength == 300
MinWavelength == 400
MaxWavelength == 1100

\* Texts the meter answers with.
PowerReply == <<"1", "e", "-", "2", "\n">>
WavelengthReply == <<"7", "8", "0", "\n">>
AutoOnReply == <<"1", "\n">>
AutoOffReply == <<"0", "\n">>
MagnReply == <<"0", ".", "1", "\n">>
NameReply == <<"P", "M", "\n">>
ErrorReply == <<"n", "o">>

\* What the meter puts in its output queue on receiving cmd: nothing for a
\* write-only command, one fresh message for a query.
DeviceReplies(cmd) ==
    LET texts ==
          CASE cmd = ReadQuery -> {PowerReply, ErrorReply}
            [] cmd = WavQuery -> {WavelengthReply, ErrorReply}
            [] cmd = AutoRangeQuery -> {AutoOnReply, AutoOffReply, ErrorReply}
            [] cmd = ZeroMagnQuery -> {MagnReply}
            [] cmd = IdnQuery -> {NameReply}
            [] OTHER -> {}
    IN  IF texts = {} THEN {<<>>}
        ELSE {<<[text |-> t, fresh |-> TRUE]>> : t \in texts}

IsQuery(cmd) == DeviceReplies(cmd) # {<<>>}

\* Arguments the calling script passes.
Wavelengths ==
    {DecNorm(3999, -1), DecNorm(400, 0), DecNorm(780, 0), DecNorm(1100, 0),
     DecNorm(11001, -1)}
Ranges == {DecNorm(495, -5)}
\* Texts the user leaves in the wavelength entry before pressing the button.
EntryTexts == {<<"7", "8", "0">>, <<"3", "9", "9", ".", "9">>, <<"n", "o">>}

NoRet == [kind |-> "none", f |-> Zero, s |-> <<>>]
RetNone == [kind |-> "None", f |-> Zero, s |-> <<>>]
RetFloat(x) == [kind |-> "float", f |-> x, s |-> <<>>]
RetText(t) == [kind |-> "text", f |-> Zero, s |-> t]
Exc(k) == [kind |-> k, f |-> Zero, s |-> <<>>]
IsExc(r) == r.kind \in {"ValueError", "OSError"}

\* float(text) as the driver uses it: the value, or ValueError.
Float(text) ==
    IF IsFloatLiteral(text) THEN RetFloat(FloatValue(text))
    ELSE Exc("ValueError")

\* The range check with both boundaries excluded.
InRangeExclusive(wavelength) ==
    /\ ~DecLeq(wavelength, DecNorm(MinWavelength, 0))
    /\ ~DecLeq(DecNorm(MaxWavelength, 0), wavelength)

\* 400 <= wavelength <= 1100
InRange(wavelength) ==
    /\ DecLeq(DecNorm(MinWavelength, 0), wavelength)
    /\ DecLeq(wavelength, DecNorm(MaxWavelength, 0))

\* A confirmation that echoes the command sent instead of the state read.
AutoRangeTextOfCommand(text) ==
    IF IsFloatLiteral(text)
    THEN RetText(<<"Auto-range on: ", "True">>)
    ELSE Exc("ValueError")

\* "Auto-range on: %s" % str(bool(float(text)))
AutoRangeText(text) ==
    IF IsFloatLiteral(text)
    THEN RetText(<<"Auto-range on: ",
                   IF Bool(FloatValue(text)) THEN "True" ELSE "False">>)
    ELSE Exc("ValueError")

Event(op, h, cmd, text, whole) ==
    [op |-> op, h |-> h, data |-> cmd, text |-> text, whole |-> whole]
OpenEv(h) == Event("open", h, NoCmd, <<>>, FALSE)
CloseEv(h) == Event("close", h, NoCmd, <<>>, FALSE)
WriteEv(h, cmd) == Event("write", h, cmd, <<>>, FALSE)
ReadEv(h, text, whole) == Event("read", h, NoCmd, text, whole)

----------------------------------------------------------------------------
VARIABLES
    fdtab,        \* descriptor number -> open file it names (0: not open)
    obj,          \* the PM16 objects: st, FILE, publisher_started
    closeCalled,  \* objects on which close() has been called
    closes,       \* how many times each opened file has been closed
    devOut,       \* replies the meter holds that have not been read
    task,         \* the top-level activity of the single thread
    self,         \* the PM16 object the activity works on
    phase,        \* that activity's position
    meth,         \* the driver method in progress
    pc,           \* that method's position
    arg,          \* that method's argument
    ret,          \* what the method returned or raised
    trace,        \* device I/O of the current activity, in order
    inflight,     \* the activity whose query reply has not been read yet
    timers,       \* callbacks scheduled with root.after
    publish       \* the "Publish values?" checkbox

vars == <<fdtab, obj, closeCalled, closes, devOut, task, self, phase, meth,
          pc, arg, ret, trace, inflight, timers, publish>>

osVars == <<fdtab, closes>>
objVars == <<obj, closeCalled>>
guiVars == <<timers, publish>>
frameVars == <<task, self, phase>>

Init ==
    /\ fdtab = [fd \in FDs |-> 0]
    /\ obj = [o \in Objs |->
                [st |-> "none", FILE |-> 0, publisher_started |-> FALSE]]
    /\ closeCalled = [o \in Objs |-> FALSE]
    /\ closes = [o \in Objs |-> 0]
    /\ devOut = <<>>
    /\ task = "idle"
    /\ self = 0
    /\ phase = ""
    /\ meth = "none"
    /\ pc = ""
    /\ arg = Zero
    /\ ret = NoRet
    /\ trace = <<>>
    /\ inflight = "none"
    /\ timers = {}
    /\ publish = FALSE

----------------------------------------------------------------------------
(* The transport: USBTMC.  One step is one system call.                    *)

Min(a, b) == IF a < b THEN a ELSE b

\* self.FILE, and whether that number names no open file any more.
FILE == obj[self].FILE
BadFd == fdtab[FILE] = 0

\* os.open hands out the lowest descriptor number that is not in use.
LowestFreeFd == CHOOSE fd \in FDs :
                    fdtab[fd] = 0 /\ \A g \in FDs : g < fd => fdtab[g] # 0

\* Byte counts os.read(FILE, length) may return: at most length, at most
\* what the message at the head of the queue holds, and possibly fewer.
ReadSizes(length) ==
    LET full == Min(length, Len(Head(devOut).text))
    IN  IF Len(devOut) <= MaxPending THEN 1..full ELSE {full}

\* An exception leaves the method.
Raise(k) ==
    /\ ret' = Exc(k)
    /\ pc' = "done"

\* USBTMC.write(command); the method goes on at next, or returns None.
USBTMC_write(command, next) ==
    /\ UNCHANGED <<osVars, objVars, guiVars, frameVars, meth, arg>>
    /\ IF BadFd
       THEN /\ Raise("OSError")
            /\ UNCHANGED <<devOut, trace, inflight>>
       ELSE /\ \E r \in DeviceReplies(command) : devOut' = devOut \o r
            /\ trace' = Append(trace, WriteEv(fdtab[FILE], command))
            /\ inflight' = IF IsQuery(command) THEN task ELSE inflight
            /\ pc' = next
            /\ ret' = IF next = "done" THEN RetNone ELSE ret

\* What the calling method makes of the text it read: power and
\* get_wavelength a float, set_auto_range its confirmation, the others the
\* text as it is.
Convert(how, text) ==
    CASE how = "float" -> Float(text)
      [] how = "auto" -> AutoRangeText(text)
      [] how = "str" -> RetText(text)

\* USBTMC.read(length), followed by the calling method's conversion.
USBTMC_read(length, how) ==
    /\ UNCHANGED <<osVars, objVars, guiVars, frameVars, meth, arg>>
    /\ IF BadFd \/ devOut = <<>>
       THEN /\ Raise("OSError")
            /\ UNCHANGED <<devOut, trace, inflight>>
       ELSE \E n \in ReadSizes(length) :
              LET msg  == Head(devOut)
                  text == SubSeq(msg.text, 1, n)
                  rest == SubSeq(msg.text, n + 1, Len(msg.text))
              IN  /\ devOut' = IF rest = <<>> THEN Tail(devOut)
                               ELSE <<[text |-> rest, fresh |-> FALSE]>>
                                    \o Tail(devOut)
                  /\ trace' = Append(trace,
                        ReadEv(fdtab[FILE], text, msg.fresh /\ rest = <<>>))
                  /\ inflight' = "none"
                  /\ ret' = Convert(how, text)
                  /\ pc' = "done"

getName ==
    /\ meth = "getName"
    /\ \/ pc = "start" /\ USBTMC_write(IdnQuery, "read")
       \/ pc = "read" /\ USBTMC_read(NameLength, "str")

sendReset ==
    /\ meth = "sendReset"
    /\ pc = "start"
    /\ USBTMC_write(ResetCmd, "done")

close ==
    /\ meth = "close"
    /\ pc = "start"
    /\ closeCalled' = [closeCalled EXCEPT ![self] = TRUE]
    /\ UNCHANGED <<obj, devOut, guiVars, frameVars, meth, arg, inflight>>
    /\ IF BadFd
       THEN /\ Raise("OSError")
            /\ UNCHANGED <<osVars, trace>>
       ELSE /\ fdtab' = [fdtab EXCEPT ![FILE] = 0]
            /\ closes' = [closes EXCEPT ![fdtab[FILE]] = @ + 1]
            /\ trace' = Append(trace, CloseEv(fdtab[FILE]))
            /\ ret' = RetNone
            /\ pc' = "done"

----------------------------------------------------------------------------
(* The instrument driver: PM16.                                            *)

power ==
    /\ meth = "power"
    /\ \/ pc = "start" /\ USBTMC_write(ReadQuery, "read")
       \/ pc = "read" /\ USBTMC_read(DefaultLength, "float")

set_wavelength ==
    /\ meth = "set_wavelength"
    /\ pc = "start"
    /\ IF ~InRange(arg)
       THEN /\ Raise("ValueError")
            /\ UNCHANGED <<osVars, objVars, guiVars, frameVars, meth, arg,
                           devOut, trace, inflight>>
       ELSE USBTMC_write(WavCmd(arg), "done")

get_wavelength ==
    /\ meth = "get_wavelength"
    /\ \/ pc = "start" /\ USBTMC_write(WavQuery, "read")
       \/ pc = "read" /\ USBTMC_read(DefaultLength, "float")

set_auto_range ==
    /\ meth = "set_auto_range"
    /\ \/ pc = "start" /\ USBTMC_write(AutoRangeOnCmd, "query")
       \/ pc = "query" /\ USBTMC_write(AutoRangeQuery, "read")
       \/ pc = "read" /\ USBTMC_read(DefaultLength, "auto")

zero_powermeter ==
    /\ meth = "zero_powermeter"
    /\ \/ pc = "start" /\ USBTMC_write(ZeroInitCmd, "query")
       \/ pc = "query" /\ USBTMC_write(ZeroMagnQuery, "read")
       \/ pc = "read" /\ USBTMC_read(DefaultLength, "str")

set_range ==
    /\ meth = "set_range"
    /\ \/ pc = "start" /\ USBTMC_write(AutoRangeOffCmd, "upper")
       \/ pc = "upper" /\ USBTMC_write(RangeCmd(arg), "done")

\* Entering a driver method, and the frame once nothing is running.
Enter(m, a) ==
    /\ meth' = m
    /\ pc' = "start"
    /\ arg' = a
    /\ ret' = NoRet

Leave ==
    /\ meth' = "none"
    /\ pc' = ""
    /\ arg' = Zero

\* PM16(device), as far as the call of USBTMC.__init__.
PM16_new(o) ==
    /\ task = "idle"
    /\ obj[o].st = "none"
    /\ \A p \in Objs : p < o => obj[p].st # "none"
    /\ task' = "PM16_init"
    /\ self' = o
    /\ phase' = "open"
    /\ obj' = [obj EXCEPT ![o].st = "init"]
    /\ trace' = <<>>
    /\ ret' = NoRet
    /\ UNCHANGED <<osVars, closeCalled, devOut, meth, pc, arg, inflight,
                   guiVars>>

\* USBTMC.__init__: os.open(device, O_RDWR), which may fail; on success the
\* constructor sleeps and calls set_auto_range.
USBTMC_init ==
    /\ task = "PM16_init"
    /\ phase = "open"
    /\ UNCHANGED <<closeCalled, closes, devOut, inflight, guiVars, task,
                   self>>
    /\ \/ /\ phase' = "raised"
          /\ ret' = Exc("OSError")
          /\ obj' = [obj EXCEPT ![self].st = "failed"]
          /\ UNCHANGED <<fdtab, trace, meth, pc, arg>>
       \/ /\ fdtab' = [fdtab EXCEPT ![LowestFreeFd] = self]
          /\ obj' = [obj EXCEPT ![self].FILE = LowestFreeFd]
          /\ trace' = Append(trace, OpenEv(self))
          /\ Enter("set_auto_range", Zero)
          /\ phase' = "auto"

\* A constructor that swallows whatever its two probes raise.
PM16_initSwallowing ==
    /\ task = "PM16_init"
    /\ pc = "done"
    /\ UNCHANGED <<osVars, closeCalled, devOut, trace, inflight, guiVars,
                   task, self>>
    /\ \/ /\ phase = "auto"
          /\ Enter("get_wavelength", Zero)
          /\ phase' = "wav"
          /\ obj' = obj
       \/ /\ phase = "wav"
          /\ phase' = "returned"
          /\ obj' = [obj EXCEPT ![self].st = "ready",
                                ![self].publisher_started = FALSE]
          /\ Leave
          /\ ret' = RetNone

\* The rest of PM16.__init__: print the auto-range confirmation, read and
\* print the wavelength, clear publisher_started.
PM16_init ==
    /\ task = "PM16_init"
    /\ pc = "done"
    /\ UNCHANGED <<osVars, closeCalled, devOut, trace, inflight, guiVars,
                   task, self>>
    /\ IF IsExc(ret)
       THEN /\ phase' = "raised"
            /\ obj' = [obj EXCEPT ![self].st = "failed"]
            /\ Leave
            /\ ret' = ret
       ELSE \/ /\ phase = "auto"
               /\ Enter("get_wavelength", Zero)
               /\ phase' = "wav"
               /\ obj' = obj
            \/ /\ phase = "wav"
               /\ phase' = "returned"
               /\ obj' = [obj EXCEPT ![self].st = "ready",
                                     ![self].publisher_started = FALSE]
               /\ Leave
               /\ ret' = RetNone

Methods ==
    {"power", "set_wavelength", "get_wavelength", "set_auto_range",
     "zero_powermeter", "set_range", "getName", "sendReset", "close"}

Args(m) ==
    CASE m = "set_wavelength" -> Wavelengths
      [] m = "set_range" -> Ranges
      [] OTHER -> {Zero}

\* The script calls a method of an object it has constructed.
ScriptCall(o, m, a) ==
    /\ task = "idle"
    /\ obj[o].st = "ready"
    /\ task' = "call"
    /\ self' = o
    /\ phase' = ""
    /\ Enter(m, a)
    /\ trace' = <<>>
    /\ UNCHANGED <<osVars, objVars, devOut, inflight, guiVars>>

\* Control is back at the script: after a call, a construction, or a
\* launch_gui that raised.
ScriptReturn ==
    /\ \/ task = "call" /\ pc = "done"
       \/ task \in {"PM16_init", "open_display"}
            /\ phase \in {"returned", "raised"}
    /\ task' = "idle"
    /\ self' = 0
    /\ phase' = ""
    /\ Leave
    /\ ret' = NoRet
    /\ trace' = <<>>
    /\ UNCHANGED <<osVars, objVars, devOut, inflight, guiVars>>

----------------------------------------------------------------------------
(* The presentation layer: PowerMeterGUI on the Tk event loop.             *)

Callbacks ==
    {"refresh_power", "stream_publish_power",
     "handle_wavelength_button_click"}

\* An event loop that would start a callback while another is running, as
\* timers on threads of their own would.
MainloopPreemptive == task \in {"mainloop"} \cup Callbacks

\* root.mainloop() starts a callback only when no callback is running.
MainloopIdle == task = "mainloop"

\* Back in the event loop, after a callback returned or raised (Tk reports
\* the exception of a callback and carries on).
ToMainloop ==
    /\ task' = "mainloop"
    /\ phase' = ""
    /\ Leave
    /\ ret' = NoRet
    /\ trace' = <<>>

\* pm.launch_gui(): PowerMeterGUI.__init__ up to the first driver call of
\* open_display.
launch_gui(o) ==
    /\ task = "idle"
    /\ obj[o].st = "ready"
    /\ task' = "open_display"
    /\ self' = o
    /\ phase' = "wav"
    /\ Enter("get_wavelength", Zero)
    /\ trace' = <<>>
    /\ publish' = FALSE
    /\ timers' = {}
    /\ UNCHANGED <<osVars, objVars, devOut, inflight>>

\* open_display: the wavelength label, the first power reading, the two
\* timers, then the event loop.
open_display ==
    /\ task = "open_display"
    /\ pc = "done"
    /\ UNCHANGED <<osVars, objVars, devOut, inflight, publish, self>>
    /\ IF IsExc(ret)
       THEN /\ phase' = "raised"
            /\ Leave
            /\ UNCHANGED <<task, ret, trace, timers>>
       ELSE \/ /\ phase = "wav"
               /\ Enter("power", Zero)
               /\ phase' = "power"
               /\ UNCHANGED <<task, trace, timers>>
            \/ /\ phase = "power"
               /\ timers' = {"refresh_power", "stream_publish_power"}
               /\ ToMainloop

\* The event loop runs a timer callback that is due.
mainloop ==
    /\ MainloopIdle
    /\ \E c \in timers :
         /\ timers' = timers \ {c}
         /\ task' = c
    /\ phase' = "start"
    /\ Leave
    /\ ret' = NoRet
    /\ trace' = <<>>
    /\ UNCHANGED <<osVars, objVars, devOut, inflight, publish, self>>

refresh_power ==
    /\ task = "refresh_power"
    /\ UNCHANGED <<osVars, objVars, devOut, inflight, publish, self>>
    /\ \/ /\ phase = "start"
          /\ Enter("power", Zero)
          /\ phase' = "power"
          /\ UNCHANGED <<task, trace, timers>>
       \/ /\ phase = "power"
          /\ pc = "done"
          /\ timers' = IF IsExc(ret) THEN timers
                       ELSE timers \cup {"refresh_power"}
          /\ ToMainloop

stream_publish_power ==
    /\ task = "stream_publish_power"
    /\ UNCHANGED <<osVars, closeCalled, devOut, inflight, publish, self>>
    /\ \/ /\ phase = "start"
          /\ publish
          /\ Enter("power", Zero)
          /\ phase' = "power"
          /\ UNCHANGED <<obj, task, trace, timers>>
       \/ /\ phase = "start"
          /\ ~publish
          /\ timers' = timers \cup {"stream_publish_power"}
          /\ ToMainloop
          /\ obj' = obj
       \/ /\ phase = "power"
          /\ pc = "done"
          /\ IF IsExc(ret)
             THEN UNCHANGED <<obj, timers>>
             ELSE /\ obj' = [obj EXCEPT ![self].publisher_started = TRUE]
                  /\ timers' = timers \cup {"stream_publish_power"}
          /\ ToMainloop

\* The user presses "Change Wavelength" with text e in the entry.
ButtonClick(e) ==
    /\ MainloopIdle
    /\ task' = "handle_wavelength_button_click"
    /\ trace' = <<>>
    /\ IF IsExc(Float(e))
       THEN /\ phase' = "raised"
            /\ ret' = Float(e)
            /\ UNCHANGED <<meth, pc, arg>>
       ELSE /\ phase' = "set"
            /\ Enter("set_wavelength", Float(e).f)
    /\ UNCHANGED <<osVars, objVars, devOut, inflight, guiVars, self>>

handle_wavelength_button_click ==
    /\ task = "handle_wavelength_button_click"
    /\ phase = "raised" \/ pc = "done"
    /\ ToMainloop
    /\ UNCHANGED <<osVars, objVars, devOut, inflight, guiVars, self>>

\* The user ticks or clears "Publish values?".
TogglePublish ==
    /\ MainloopIdle
    /\ publish' = ~publish
    /\ UNCHANGED <<osVars, objVars, devOut, inflight, timers, frameVars,
                   meth, pc, arg, ret, trace>>

----------------------------------------------------------------------------
Next ==
    \/ \E o \in Objs : PM16_new(o)
    \/ USBTMC_init
    \/ PM16_init
    \/ \E o \in Objs : \E m \in Methods : \E a \in Args(m) :
          ScriptCall(o, m, a)
    \/ ScriptReturn
    \/ getName
    \/ sendReset
    \/ close
    \/ power
    \/ set_wavelength
    \/ get_wavelength
    \/ set_auto_range
    \/ zero_powermeter
    \/ set_range
    \/ \E o \in Objs : launch_gui(o)
    \/ open_display
    \/ mainloop
    \/ refresh_power
    \/ stream_publish_power
    \/ \E e \in EntryTexts : ButtonClick(e)
    \/ handle_wavelength_button_click
    \/ TogglePublish

Spec == Init /\ [][Next]_vars

----------------------------------------------------------------------------
(* Properties.                                                             *)

\* A script-level call of method m has just returned or raised.
Called(m) == task = "call" /\ meth = m /\ pc = "done"

\* The wavelength w in tenths of a nanometre (w has at most one decimal).
Tenths(w) == w.m * Pow10(w.e + 1)

\* C1: set_wavelength(nm) on an open handle performs exactly one device
\* write, of SENS:CORR:WAV nm, no read, and returns when 400 <= nm <= 1100,
\* both boundaries included; otherwise it raises the range error and leaves
\* the device I/O, the device and the descriptors as they were.
C1_SetWavelengthValidatesFirst ==
    [][(meth = "set_wavelength" /\ pc = "start" /\ ~BadFd) =>
         IF 4000 <= Tenths(arg) /\ Tenths(arg) <= 11000
         THEN /\ ret' = RetNone
              /\ trace' = <<WriteEv(fdtab[FILE],
                                    Cmd("SENS:CORR:WAV", Num(arg)))>>
              /\ devOut' = devOut
         ELSE /\ ret' = Exc("ValueError")
              /\ trace' = <<>>
              /\ trace = <<>>
              /\ devOut' = devOut
              /\ fdtab' = fdtab]_vars

\* 1100.1 nm has been rejected without any device I/O.
C1_Witness ==
    /\ Called("set_wavelength")
    /\ arg = DecNorm(11001, -1)
    /\ fdtab[FILE] # 0
    /\ ret = Exc("ValueError")
    /\ trace = <<>>

\* C2: once close() has been called on a driver, every later call of
\* another method on it raises the I/O error and neither writes to nor
\* reads from the device.
C2_NothingWorksAfterClose ==
    (task = "call" /\ pc = "done" /\ meth # "close" /\ closeCalled[self])
        => (ret = Exc("OSError") /\ trace = <<>>)

\* C3: every file a constructor opened is closed exactly once: never twice,
\* never reopened, and closed once the construction has failed or close()
\* has been called on its driver.
C3_ReleasedExactlyOnce ==
    \A o \in Objs :
      /\ closes[o] <= 1
      /\ closes[o] = 1 => \A fd \in FDs : fdtab[fd] # o
      /\ (/\ task = "idle"
          /\ obj[o].FILE # 0
          /\ obj[o].st = "failed" \/ closeCalled[o]) => closes[o] = 1

\* What the i-th device access of a construction has to be.
C4_Step(i, ev) ==
    CASE i = 1 -> ev = OpenEv(self)
      [] i = 2 -> ev = WriteEv(self, AutoRangeOnCmd)
      [] i = 3 -> ev = WriteEv(self, AutoRangeQuery)
      [] i = 4 -> ev.op = "read" /\ ev.h = self
      [] i = 5 -> ev = WriteEv(self, WavQuery)
      [] i = 6 -> ev.op = "read" /\ ev.h = self

\* C4: construction opens the device, writes the auto-range enable command,
\* queries the auto-range state, queries the wavelength, in this order and
\* with no other device I/O; the driver is Ready only if both replies parse
\* as numbers, and construction fails if the open fails or either reply
\* does not parse.
C4_ConstructionOrder ==
    task = "PM16_init" =>
      /\ Len(trace) <= 6
      /\ \A i \in 1..Len(trace) : C4_Step(i, trace[i])
      /\ obj[self].st = "ready" <=> phase = "returned"
      /\ obj[self].st = "failed" <=> phase = "raised"
      /\ obj[self].st = "ready" =>
            /\ Len(trace) = 6
            /\ IsFloatLiteral(trace[4].text)
            /\ IsFloatLiteral(trace[6].text)
      /\ (phase # "open" /\ trace = <<>>) => phase = "raised"
      /\ (Len(trace) >= 4 /\ phase # "auto" /\ ~IsFloatLiteral(trace[4].text))
            => (phase = "raised" /\ Len(trace) = 4)
      /\ (Len(trace) = 6 /\ phase # "wav" /\ ~IsFloatLiteral(trace[6].text))
            => phase = "raised"

\* A construction has reached Ready after its six device accesses.
C4_Witness ==
    /\ task = "PM16_init"
    /\ phase = "returned"
    /\ obj[self].st = "ready"
    /\ Len(trace) = 6

\* C5: power() on an open handle writes Read? once, then reads once, and
\* raises the parse error whenever the text read is a truncated reply.
C5_TruncatedReplyIsParseError ==
    (Called("power") /\ ret # Exc("OSError")) =>
      /\ Len(trace) = 2
      /\ trace[1] = WriteEv(trace[1].h, Cmd("Read?", NoArg))
      /\ trace[2].op = "read"
      /\ ~trace[2].whole => ret = Exc("ValueError")

\* C6: while the reply to a query written by one of the GUI's callers is
\* unread, that caller is the one running, and it is about to read.
C6_OneCallerMidQuery ==
    inflight # "none" => (task = inflight /\ meth # "none" /\ pc = "read")

\* The 1000 ms timer's callback has written its query and not read yet.
C6_Witness ==
    /\ inflight = "stream_publish_power"
    /\ task = "stream_publish_power"
    /\ "refresh_power" \in timers

\* C7: set_auto_range on an open handle writes the enable command, then the
\* state query, then reads; the text read decides the confirmation: "1"
\* gives enabled, "0" gives disabled, a text that is no number gives the
\* parse error.
C7_AutoRangeConfirmation ==
    (Called("set_auto_range") /\ ret # Exc("OSError")) =>
      /\ Len(trace) = 3
      /\ trace[1] = WriteEv(trace[1].h, Cmd("SENS:CORR:RANG:AUTO", Lit("1")))
      /\ trace[2] = WriteEv(trace[1].h, Cmd("SENS:CURR:RANG:AUTO?", NoArg))
      /\ trace[3].op = "read"
      /\ Strip(trace[3].text) = <<"1">>
            => ret = RetText(<<"Auto-range on: ", "True">>)
      /\ Strip(trace[3].text) = <<"0">>
            => ret = RetText(<<"Auto-range on: ", "False">>)
      /\ ~IsFloatLiteral(trace[3].text) => ret = Exc("ValueError")
      /\ IsFloatLiteral(trace[3].text) => ret.kind = "text"

\* The meter answered 0 and the confirmation says disabled.
C7_Witness ==
    /\ Called("set_auto_range")
    /\ Len(trace) = 3
    /\ trace[3].text = AutoOffReply
    /\ ret = RetText(<<"Auto-range on: ", "False">>)

\* C8: set_range(threshold) on an open handle issues exactly two writes and
\* no read: first the command set_auto_range enables auto-range with,
\* carrying 0 instead of 1 (SENS:CORR:RANG:AUTO 0), then
\* SENS:CURR:RANG: UPP threshold.
C8_SetRangeDisablesAutoRange ==
    (Called("set_range") /\ ret # Exc("OSError")) =>
      /\ Len(trace) = 2
      /\ trace[1] = WriteEv(trace[1].h, Cmd(AutoRangeOnCmd.head, Lit("0")))
      /\ trace[1].data = Cmd("SENS:CORR:RANG:AUTO", Lit("0"))
      /\ trace[2] = WriteEv(trace[1].h, Cmd("SENS:CURR:RANG: UPP", Num(arg)))

\* C9: when a driver operation ends, with a value or with an error, the
\* device holds no unread reply bytes.
C9_NoReplyLeftUnread ==
    pc = "done" => devOut = <<>>

\* C10: while the GUI's event loop waits, refresh_power and
\* stream_publish_power are both scheduled to run again.
C10_PollingNeverStops ==
    task = "mainloop" =>
        {"refresh_power", "stream_publish_power"} \subseteq timers

====
